---------------------------- MODULE Spec2Model ----------------------------
(***************************************************************************)
(* Model of the retrieval-evaluation metrics of src/metrics.py:            *)
(* the relevance evaluator, the ranking metrics and the aggregate          *)
(* reporting functions.  Every function of the module is pure, so the      *)
(* state is the loaded label table (df), the last call made (call) and     *)
(* what that call returned or raised (ret).                                *)
(* The tag cleaning script src/FSD50K_cleaner.py is modelled next to it,    *)
(* as the steps of its pair loop and of its loop over the groups.          *)
(*                                                                         *)
(* Python values are modelled as follows:                                  *)
(*   str            a sequence of one-character strings                    *)
(*   int            an integer                                             *)
(*   float          an exact rational [num, den] in lowest terms           *)
(*   None / value   <<>> / <<value>>                                       *)
(*   fname          a tagged value, [t |-> "int"|"str", v |-> ...]         *)
(*   list           a sequence;  set: a set                                *)
(*   a call         [kind |-> "value", val |-> v] when it returns v,       *)
(*                  [kind |-> <exception name>, val |-> <<>>] when raising *)
(***************************************************************************)
EXTENDS Integers, Sequences, FiniteSets, TLC

VARIABLES df, call, ret

\* the state of the tag cleaning script FSD50K_cleaner.py
VARIABLES tags_subset, pair_index, groups, group_index, replacement_dict, pc

cleaner_vars ==
    <<tags_subset, pair_index, groups, group_index, replacement_dict, pc>>

vars == <<df, call, ret, cleaner_vars>>

---------------------------------------------------------------------------
(* Bounds of the model *)

\* number of item identifiers of the label table
NumItems == 2

\* longest relevance sequence the ranking metrics are called on
MaxN == 3

\* longest list of per-label entries calculate_macro_map is called on
MaxLabels == 2

\* longest labels string, and longest label, of the label-containment lookup
MaxStrLen == 5

MaxLabelLen == 2

---------------------------------------------------------------------------
(* Python values *)

None == <<>>

Some(x) == <<x>>

Ok(v) == [kind |-> "value", val |-> v]

Raise(e) == [kind |-> e, val |-> <<>>]

PyInt(i) == [t |-> "int", v |-> i]

PyStr(s) == [t |-> "str", v |-> s]

Min(a, b) == IF a <= b THEN a ELSE b

Max(a, b) == IF a >= b THEN a ELSE b

\* lst[:m] for any integer m
SliceTo(lst, m) ==
    IF m >= 0 THEN SubSeq(lst, 1, Min(m, Len(lst)))
    ELSE SubSeq(lst, 1, Max(Len(lst) + m, 0))

RECURSIVE SumSeq(_)
\* sum(lst) over a list of integers
SumSeq(lst) == IF lst = <<>> THEN 0 ELSE lst[1] + SumSeq(Tail(lst))

Digits == <<"0", "1", "2", "3", "4", "5", "6", "7", "8", "9">>

RECURSIVE StrOfNat(_)
\* str(i) for a non-negative int
StrOfNat(i) ==
    IF i < 10 THEN <<Digits[i + 1]>>
    ELSE Append(StrOfNat(i \div 10), Digits[(i % 10) + 1])

DigitValue(c) == CHOOSE d \in 0..9 : Digits[d + 1] = c

RECURSIVE NatOfStr(_)
\* int(s) for a string of decimal digits
NatOfStr(s) ==
    IF Len(s) = 1 THEN DigitValue(s[1])
    ELSE 10 * NatOfStr(SubSeq(s, 1, Len(s) - 1)) + DigitValue(s[Len(s)])

\* int(x) and str(x) for an int or a str x
int(x) == IF x.t = "int" THEN x.v ELSE NatOfStr(x.v)

str(x) == IF x.t = "str" THEN x.v ELSE StrOfNat(x.v)

RECURSIVE SplitFrom(_, _, _)
SplitFrom(s, i, token) ==
    IF i > Len(s) THEN <<token>>
    ELSE IF s[i] = "," THEN <<token>> \o SplitFrom(s, i + 1, <<>>)
    ELSE SplitFrom(s, i + 1, Append(token, s[i]))

\* s.split(","): the list of the comma-delimited tokens, [""] for ""
Split(s) == SplitFrom(s, 1, <<>>)

SeqToSet(lst) == {lst[i] : i \in DOMAIN lst}

---------------------------------------------------------------------------
(* Rational arithmetic: the value of Python's float results *)

RECURSIVE GCD(_, _)
GCD(a, b) == IF b = 0 THEN a ELSE GCD(b, a % b)

Abs(a) == IF a < 0 THEN -a ELSE a

\* n/d for d # 0, in lowest terms with a positive denominator
Frac(n, d) ==
    LET g == GCD(Abs(n), Abs(d))
        s == IF d < 0 THEN -1 ELSE 1
    IN [num |-> (s * n) \div g, den |-> (s * d) \div g]

Zero == Frac(0, 1)

FracAdd(a, b) == Frac(a.num * b.den + b.num * a.den, a.den * b.den)

FracMulInt(a, i) == Frac(a.num * i, a.den)

\* a / i as a call: ZeroDivisionError when i = 0
TrueDiv(a, i) ==
    IF i = 0 THEN Raise("ZeroDivisionError")
    ELSE Ok(Frac(a.num, a.den * i))

FracLeq(a, b) == a.num * b.den <= b.num * a.den

RECURSIVE SumFracs(_)
\* sum(lst) over a list of floats
SumFracs(lst) == IF lst = <<>> THEN Zero ELSE FracAdd(lst[1], SumFracs(Tail(lst)))

---------------------------------------------------------------------------
(* Utilities *)

\* get_labels with an identifier without a row given the empty label set
get_labels_empty_default(fname, df_) ==
    LET key == int(fname)
        values == SelectSeq(df_, LAMBDA row : row.fname = key)
    IN IF Len(values) = 0 THEN Ok({})
       ELSE Ok(SeqToSet(Split(values[1].labels)))

\* df[df["fname"]==int(fname)]["labels"].values[0].split(",") as a set
get_labels(fname, df_) ==
    LET key == int(fname)
        values == SelectSeq(df_, LAMBDA row : row.fname = key)
    IN IF Len(values) = 0 THEN Raise("IndexError")
       ELSE Ok(SeqToSet(Split(values[1].labels)))

\* the relevance of one retrieved item, with the label test equality of the label sets
is_relevant_equal_sets(query_item_labels, ref_item_labels, query_label) ==
    IF query_label = None
    THEN IF query_item_labels = ref_item_labels THEN 1 ELSE 0
    ELSE IF query_label[1] \in ref_item_labels THEN 1 ELSE 0

\* the relevance of one retrieved item, the query label tested on the query too
is_relevant_query_has_label(query_item_labels, ref_item_labels, query_label) ==
    IF query_label = None
    THEN IF Cardinality(query_item_labels \cap ref_item_labels) > 0 THEN 1 ELSE 0
    ELSE IF query_label[1] \in (query_item_labels \cap ref_item_labels) THEN 1 ELSE 0

\* the relevance of one retrieved item: the body of the loop of evaluate_relevance
is_relevant(query_item_labels, ref_item_labels, query_label) ==
    IF query_label = None
    THEN IF Cardinality(query_item_labels \cap ref_item_labels) > 0 THEN 1 ELSE 0
    ELSE IF query_label[1] \in ref_item_labels THEN 1 ELSE 0

RECURSIVE evaluate_relevance_loop(_, _, _, _, _, _)
evaluate_relevance_loop(query_item_labels, result, df_, query_label, i, relevance) ==
    IF i > Len(result) THEN Ok(relevance)
    ELSE LET ref_fname == result[i].result_fname
             ref_item_labels == get_labels(ref_fname, df_)
         IN IF ref_item_labels.kind # "value" THEN ref_item_labels
            ELSE evaluate_relevance_loop(
                     query_item_labels, result, df_, query_label, i + 1,
                     Append(relevance,
                            is_relevant(query_item_labels, ref_item_labels.val,
                                        query_label)))

evaluate_relevance(query_fname, result, df_, query_label) ==
    LET query_item_labels == get_labels(query_fname, df_)
    IN IF query_item_labels.kind # "value" THEN query_item_labels
       ELSE evaluate_relevance_loop(query_item_labels.val, result, df_,
                                    query_label, 1, <<>>)

---------------------------------------------------------------------------
(* Regular expressions, as far as find_indices_containing_label uses them *)

\* the characters re.escape puts a backslash before, among those of the model
SpecialChars == {"."}

RECURSIVE re_escape(_)
re_escape(s) ==
    IF s = <<>> THEN <<>>
    ELSE (IF s[1] \in SpecialChars THEN <<"\\", s[1]>> ELSE <<s[1]>>)
         \o re_escape(Tail(s))

RECURSIVE re_atoms(_, _)
\* the atoms of a pattern from position i on: \A, \Z, an escaped or a plain
\* character, the wildcard ".", and the alternation bar
re_atoms(p, i) ==
    IF i > Len(p) THEN <<>>
    ELSE IF p[i] = "\\"
         THEN <<(IF p[i + 1] = "A" THEN [type |-> "bos", ch |-> ""]
                 ELSE IF p[i + 1] = "Z" THEN [type |-> "eos", ch |-> ""]
                 ELSE [type |-> "lit", ch |-> p[i + 1]])>> \o re_atoms(p, i + 2)
         ELSE <<(IF p[i] = "|" THEN [type |-> "bar", ch |-> ""]
                 ELSE IF p[i] = "." THEN [type |-> "any", ch |-> ""]
                 ELSE [type |-> "lit", ch |-> p[i]])>> \o re_atoms(p, i + 1)

RECURSIVE re_alternatives(_, _)
\* the alternatives of a list of atoms, current being the one under way
re_alternatives(atoms, current) ==
    IF atoms = <<>> THEN <<current>>
    ELSE IF atoms[1].type = "bar"
         THEN <<current>> \o re_alternatives(Tail(atoms), <<>>)
         ELSE re_alternatives(Tail(atoms), Append(current, atoms[1]))

\* re.compile of a pattern "(?:" ... ")" without an inner group
re_compile(p) ==
    re_alternatives(re_atoms(SubSeq(p, 4, Len(p) - 1), 1), <<>>)

RECURSIVE re_match_at(_, _, _)
\* the atoms match s from position pos on
re_match_at(atoms, s, pos) ==
    IF atoms = <<>> THEN TRUE
    ELSE LET a == atoms[1]
         IN IF a.type = "bos" THEN pos = 1 /\ re_match_at(Tail(atoms), s, pos)
            ELSE IF a.type = "eos"
                 THEN pos = Len(s) + 1 /\ re_match_at(Tail(atoms), s, pos)
            ELSE IF a.type = "any"
                 THEN pos <= Len(s) /\ re_match_at(Tail(atoms), s, pos + 1)
            ELSE pos <= Len(s) /\ s[pos] = a.ch
                 /\ re_match_at(Tail(atoms), s, pos + 1)

\* re.search(compiled, s) finds a match
re_search(compiled, s) ==
    \E pos \in 1..Len(s) + 1 :
        \E j \in DOMAIN compiled : re_match_at(compiled[j], s, pos)

\* the pattern with the label matched anywhere in the string
label_pattern_unanchored(label) ==
    <<"(", "?", ":">> \o re_escape(label) \o <<")">>

\* the pattern find_indices_containing_label builds for a label
label_pattern(label) ==
    LET l == re_escape(label)
    IN <<"(", "?", ":">>
       \o <<"\\", "A">> \o l \o <<",", "|">>
       \o <<",">> \o l \o <<",", "|">>
       \o <<",">> \o l \o <<"\\", "Z">>
       \o <<"|", "\\", "A">> \o l \o <<"\\", "Z">>
       \o <<")">>

\* df["labels"].str.contains(pattern): one boolean per row
find_indices_containing_label(label, df_) ==
    LET pattern == re_compile(label_pattern(label))
    IN [r \in DOMAIN df_ |-> re_search(pattern, df_[r].labels)]

---------------------------------------------------------------------------
(* mAP related metrics *)

\* set(relevance).issubset({0,1})
IsBinary(relevance) == SeqToSet(relevance) \subseteq {0, 1}

\* precision_at_k with the rank counted from the end of the list
precision_at_k_from_end(relevance, k) ==
    IF ~IsBinary(relevance) THEN Raise("AssertionError")
    ELSE TrueDiv(Frac(SumSeq(SliceTo(relevance, k + 1)), 1), Len(relevance) - k)

\* precision_at_k with the slice relevance[:k], which leaves position k out
precision_at_k_exclusive(relevance, k) ==
    IF ~IsBinary(relevance) THEN Raise("AssertionError")
    ELSE TrueDiv(Frac(SumSeq(SliceTo(relevance, k)), 1), k + 1)

\* precision_at_k without the assertion on the relevance values
precision_at_k_unchecked(relevance, k) ==
    TrueDiv(Frac(SumSeq(SliceTo(relevance, k + 1)), 1), k + 1)

precision_at_k(relevance, k) ==
    IF ~IsBinary(relevance) THEN Raise("AssertionError")
    ELSE TrueDiv(Frac(SumSeq(SliceTo(relevance, k + 1)), 1), k + 1)

RECURSIVE weighted_precisions(_, _, _)
\* [rel_k*precision_at_k(relevance,k) for k,rel_k in enumerate(relevance)]
weighted_precisions(relevance, k, terms) ==
    IF k >= Len(relevance) THEN Ok(terms)
    ELSE LET p == precision_at_k(relevance, k)
         IN IF p.kind # "value" THEN p
            ELSE weighted_precisions(relevance, k + 1,
                     Append(terms, FracMulInt(p.val, relevance[k + 1])))

\* average_precision without the branch for no relevant document
average_precision_unguarded(relevance, n_relevant) ==
    IF SumSeq(relevance) # n_relevant THEN Raise("AssertionError")
    ELSE LET terms == weighted_precisions(relevance, 0, <<>>)
         IN IF terms.kind # "value" THEN terms
            ELSE TrueDiv(SumFracs(terms.val), n_relevant)

\* average_precision with the sum divided by the length of the list
average_precision_by_len(relevance, n_relevant) ==
    IF SumSeq(relevance) # n_relevant THEN Raise("AssertionError")
    ELSE IF n_relevant = 0 THEN Ok(Zero)
    ELSE LET terms == weighted_precisions(relevance, 0, <<>>)
         IN IF terms.kind # "value" THEN terms
            ELSE TrueDiv(SumFracs(terms.val), Len(relevance))

\* average_precision without the assertion on n_relevant
average_precision_unasserted(relevance, n_relevant) ==
    IF n_relevant = 0 THEN Ok(Zero)
    ELSE LET terms == weighted_precisions(relevance, 0, <<>>)
         IN IF terms.kind # "value" THEN terms
            ELSE TrueDiv(SumFracs(terms.val), n_relevant)

average_precision(relevance, n_relevant) ==
    IF SumSeq(relevance) # n_relevant THEN Raise("AssertionError")
    ELSE IF n_relevant = 0 THEN Ok(Zero)
    ELSE LET terms == weighted_precisions(relevance, 0, <<>>)
         IN IF terms.kind # "value" THEN terms
            ELSE TrueDiv(SumFracs(terms.val), n_relevant)

\* a call average_precision(*args): the signature takes two positional
\* arguments, neither with a default
call_average_precision(args) ==
    IF Len(args) # 2 THEN Raise("TypeError")
    ELSE average_precision(args[1], args[2])

\* average_precision_at_n normalising by n whatever n_relevant is
average_precision_at_n_by_n(relevance, n, n_relevant) ==
    IF ~(n > 0) THEN Raise("AssertionError")
    ELSE IF Len(relevance) # n THEN Raise("AssertionError")
    ELSE IF SumSeq(relevance) = 0 THEN Ok(Zero)
    ELSE LET terms == weighted_precisions(relevance, 0, <<>>)
         IN IF terms.kind # "value" THEN terms
            ELSE TrueDiv(SumFracs(terms.val), n)

\* average_precision_at_n without the branch for no relevant document
average_precision_at_n_unguarded(relevance, n, n_relevant) ==
    IF ~(n > 0) THEN Raise("AssertionError")
    ELSE IF Len(relevance) # n THEN Raise("AssertionError")
    ELSE LET terms == weighted_precisions(relevance, 0, <<>>)
             normalization == IF n_relevant # None THEN Min(n, n_relevant[1]) ELSE n
         IN IF terms.kind # "value" THEN terms
            ELSE TrueDiv(SumFracs(terms.val), normalization)

\* average_precision_at_n without the assertion on the length of relevance
average_precision_at_n_any_len(relevance, n, n_relevant) ==
    IF ~(n > 0) THEN Raise("AssertionError")
    ELSE IF SumSeq(relevance) = 0 THEN Ok(Zero)
    ELSE LET terms == weighted_precisions(relevance, 0, <<>>)
             normalization == IF n_relevant # None THEN Min(n, n_relevant[1]) ELSE n
         IN IF terms.kind # "value" THEN terms
            ELSE TrueDiv(SumFracs(terms.val), normalization)

\* n_relevant is None or <<an int>>
average_precision_at_n(relevance, n, n_relevant) ==
    IF ~(n > 0) THEN Raise("AssertionError")
    ELSE IF Len(relevance) # n THEN Raise("AssertionError")
    ELSE IF SumSeq(relevance) = 0 THEN Ok(Zero)
    ELSE LET terms == weighted_precisions(relevance, 0, <<>>)
             normalization == IF n_relevant # None THEN Min(n, n_relevant[1]) ELSE n
         IN IF terms.kind # "value" THEN terms
            ELSE TrueDiv(SumFracs(terms.val), normalization)

FracSub(a, b) == Frac(a.num * b.den - b.num * a.den, a.den * b.den)

FracAbs(a) == [num |-> Abs(a.num), den |-> a.den]

\* the cases of test_average_precision_at_n: relevance, length, n_relevant, answer
tests ==
    << <<<<0, 0, 0, 0, 0, 0>>, 6, 10, Frac(0, 1000)>>,
       <<<<1, 1, 0, 0, 0, 0>>, 6, 2, Frac(1000, 1000)>>,
       <<<<0, 0, 0, 0, 1, 1>>, 6, 2, Frac(266, 1000)>>,
       <<<<0, 1, 0, 1, 0, 0>>, 6, 2, Frac(500, 1000)>>,
       <<<<1, 0, 0, 1, 0, 1>>, 6, 3, Frac(666, 1000)>>,
       <<<<1, 1, 1, 0, 0>>, 5, 8, Frac(600, 1000)>> >>

RECURSIVE test_loop(_)
test_loop(i) ==
    IF i > Len(tests) THEN Ok(None)
    ELSE LET ap == average_precision_at_n(tests[i][1], tests[i][2], Some(tests[i][3]))
         IN IF ap.kind # "value" THEN ap
            ELSE IF ~FracLeq(FracAbs(FracSub(ap.val, tests[i][4])), Frac(1, 1000))
                 THEN Raise("SystemExit")
                 ELSE test_loop(i + 1)

test_average_precision_at_n == test_loop(1)

RECURSIVE micro_map_loop(_, _, _, _, _)
micro_map_loop(results_dict, df_, k, i, aps) ==
    IF i > Len(results_dict) THEN Ok(aps)
    ELSE LET relevance == evaluate_relevance(PyStr(results_dict[i].key),
                              SliceTo(results_dict[i].result, k), df_, None)
         IN IF relevance.kind # "value" THEN relevance
            ELSE LET ap == call_average_precision(<<relevance.val>>)
                 IN IF ap.kind # "value" THEN ap
                    ELSE micro_map_loop(results_dict, df_, k, i + 1,
                                        Append(aps, ap.val))

calculate_micro_map_at_k(results_dict, df_, k) ==
    LET aps == micro_map_loop(results_dict, df_, k, 1, <<>>)
    IN IF aps.kind # "value" THEN aps
       ELSE TrueDiv(SumFracs(aps.val), Len(aps.val))

\* results_dict[key]: the result list stored under the key
dict_get(results_dict, key) ==
    LET found == SelectSeq(results_dict, LAMBDA e : e.key = key)
    IN IF Len(found) = 0 THEN Raise("KeyError") ELSE Ok(found[1].result)

\* df[mask]["fname"].to_list()
fnames_where(mask, df_) ==
    LET rows == SelectSeq([r \in DOMAIN df_ |-> [row |-> df_[r], keep |-> mask[r]]],
                          LAMBDA x : x.keep)
    IN [j \in DOMAIN rows |-> rows[j].row.fname]

RECURSIVE label_aps_loop(_, _, _, _, _, _, _)
label_aps_loop(fnames_with_label, query_label, results_dict, df_, k, i, label_aps) ==
    IF i > Len(fnames_with_label) THEN Ok(label_aps)
    ELSE LET query_fname == PyInt(fnames_with_label[i])
             result == dict_get(results_dict, str(query_fname))
         IN IF result.kind # "value" THEN result
            ELSE LET relevance == evaluate_relevance(query_fname,
                                      SliceTo(result.val, k), df_, Some(query_label))
                 IN IF relevance.kind # "value" THEN relevance
                    ELSE LET ap == call_average_precision(<<relevance.val>>)
                         IN IF ap.kind # "value" THEN ap
                            ELSE label_aps_loop(fnames_with_label, query_label,
                                     results_dict, df_, k, i + 1,
                                     Append(label_aps, ap.val))

RECURSIVE label_maps_loop(_, _, _, _, _, _)
\* the loop over the labels, taken in the order the set of labels iterates in
label_maps_loop(order, results_dict, df_, k, i, label_maps) ==
    IF i > Len(order) THEN Ok(label_maps)
    ELSE LET query_label == order[i]
             fnames_with_label ==
                 fnames_where(find_indices_containing_label(query_label, df_), df_)
             label_aps == label_aps_loop(fnames_with_label, query_label,
                                         results_dict, df_, k, 1, <<>>)
         IN IF label_aps.kind # "value" THEN label_aps
            ELSE LET label_map_at_k == TrueDiv(SumFracs(label_aps.val),
                                               Len(label_aps.val))
                 IN IF label_map_at_k.kind # "value" THEN label_map_at_k
                    ELSE label_maps_loop(order, results_dict, df_, k, i + 1,
                             Append(label_maps,
                                    [label |-> query_label,
                                     map |-> label_map_at_k.val,
                                     occurance |-> Len(fnames_with_label)]))

RECURSIVE sort_by_map_desc(_)
\* label_maps.sort(key=lambda x: x[1], reverse=True): stable, descending
sort_by_map_desc(label_maps) ==
    IF label_maps = <<>> THEN <<>>
    ELSE LET n == Len(label_maps)
             last == label_maps[n]
             sorted == sort_by_map_desc(SubSeq(label_maps, 1, n - 1))
             \* last goes after every entry whose map is at least its own
             before == SelectSeq(sorted, LAMBDA e : FracLeq(last.map, e.map))
             after == SelectSeq(sorted, LAMBDA e : ~FracLeq(last.map, e.map))
         IN before \o <<last>> \o after

\* the labels of the table: set([l for ls in ... for l in ls])
labels_of(df_) == UNION {SeqToSet(Split(df_[r].labels)) : r \in DOMAIN df_}

\* order: the order in which the for loop meets the labels of the set
calculate_map_at_k_for_labels(results_dict, df_, k, order) ==
    LET label_maps == label_maps_loop(order, results_dict, df_, k, 1, <<>>)
    IN IF label_maps.kind # "value" THEN label_maps
       ELSE Ok([label_maps |-> sort_by_map_desc(label_maps.val),
                columns |-> <<"label", "map@15", "occurance">>])

\* the macro map with every label weighted by its occurrence count
macro_map_weighted(label_maps) ==
    TrueDiv(SumFracs([j \in DOMAIN label_maps |->
                         FracMulInt(label_maps[j].map, label_maps[j].occurance)]),
            SumSeq([j \in DOMAIN label_maps |-> label_maps[j].occurance]))

calculate_macro_map(label_maps) ==
    TrueDiv(SumFracs([j \in DOMAIN label_maps |-> label_maps[j].map]),
            Len(label_maps))

---------------------------------------------------------------------------
(* Ranking related metrics *)

RECURSIVE R1_loop(_, _, _, _)
R1_loop(query_labels, result, df_, i) ==
    IF i > Len(result) THEN Ok(None)
    ELSE LET ref_fname == result[i].result_fname
             ref_labels == get_labels(ref_fname, df_)
         IN IF ref_labels.kind # "value" THEN ref_labels
            ELSE IF Cardinality(query_labels \cap ref_labels.val) > 0
                 THEN Ok(Some(i - 1))
                 ELSE R1_loop(query_labels, result, df_, i + 1)

\* R1 with the loop leaving at the first result that shares no label
R1_first_mismatch(query_fname, result, df_) ==
    LET query_labels == get_labels(query_fname, df_)
        labels == [i \in DOMAIN result |-> get_labels(result[i].result_fname, df_)]
        failed == {i \in DOMAIN result : labels[i].kind # "value"}
        found == {i \in DOMAIN result :
                     /\ labels[i].kind = "value"
                     /\ Cardinality(query_labels.val \cap labels[i].val) = 0}
    IN IF query_labels.kind # "value" THEN query_labels
       ELSE IF failed # {} THEN Raise("IndexError")
       ELSE IF found = {} THEN Ok(None)
       ELSE Ok(Some((CHOOSE i \in found : \A j \in found : i <= j) - 1))

\* R1 with the rank counted from 1
R1_one_based(query_fname, result, df_) ==
    LET query_labels == get_labels(query_fname, df_)
        r == IF query_labels.kind # "value" THEN query_labels
             ELSE R1_loop(query_labels.val, result, df_, 1)
    IN IF r.kind = "value" /\ r.val # None THEN Ok(Some(r.val[1] + 1)) ELSE r

R1(query_fname, result, df_) ==
    LET query_labels == get_labels(query_fname, df_)
    IN IF query_labels.kind # "value" THEN query_labels
       ELSE R1_loop(query_labels.val, result, df_, 1)

\* the truth value of "if x" for x an int or None
Truthy(x) == x # None /\ x[1] # 0

RECURSIVE MR1_collect(_, _, _, _)
\* r1s = [R1(query_fname, result, df) for query_fname, result in results_dict.items()]
MR1_collect(results_dict, df_, i, r1s) ==
    IF i > Len(results_dict) THEN Ok(r1s)
    ELSE LET r == R1(PyStr(results_dict[i].key), results_dict[i].result, df_)
         IN IF r.kind # "value" THEN r
            ELSE MR1_collect(results_dict, df_, i + 1, Append(r1s, r.val))

\* calculate_MR1 with a query without a match counted at the length of its list
MR1_penalised(results_dict, df_) ==
    LET all == MR1_collect(results_dict, df_, 1, <<>>)
    IN IF all.kind # "value" THEN all
       ELSE LET r1s == [j \in DOMAIN all.val |->
                           IF all.val[j] = None THEN Len(results_dict[j].result)
                           ELSE all.val[j][1]]
            IN TrueDiv(Frac(SumSeq(r1s), 1), Len(r1s))

calculate_MR1(results_dict, df_) ==
    LET all == MR1_collect(results_dict, df_, 1, <<>>)
    IN IF all.kind # "value" THEN all
       ELSE LET kept == SelectSeq(all.val, Truthy)
                r1s == [j \in DOMAIN kept |-> kept[j][1]]
            IN TrueDiv(Frac(SumSeq(r1s), 1), Len(r1s))

---------------------------------------------------------------------------
(* The inputs the calls are made on *)

\* the labels strings of the rows of the label table
LabelStrings == {<<"a">>, <<"b">>, <<"a", ",", "b">>}

Fnames == 1..NumItems

RECURSIVE RowsFrom(_, _)
RowsFrom(f, i) ==
    IF i > NumItems THEN <<>>
    ELSE (IF f[i] = None THEN <<>> ELSE <<[fname |-> i, labels |-> f[i][1]]>>)
         \o RowsFrom(f, i + 1)

\* label tables: every identifier has at most one row, rows in identifier order
DataFrames ==
    {RowsFrom(f, 1) : f \in [Fnames -> {None} \cup {Some(s) : s \in LabelStrings}]}

\* the label tables that have a row for every identifier
FullDataFrames == {t \in DataFrames : Len(t) = NumItems}

\* label tables with a label that is a part of another one ("a" and "ab")
AggDataFrames ==
    {RowsFrom(f, 1) :
        f \in [Fnames -> {None} \cup {Some(s) : s \in LabelStrings \cup {<<"a", "b">>}}]}

RECURSIVE DistinctSeqs(_, _)
\* the sequences of at most n pairwise distinct elements of S
DistinctSeqs(S, n) ==
    IF n = 0 THEN {<<>>}
    ELSE LET shorter == DistinctSeqs(S, n - 1)
         IN shorter \cup
            {Append(q, x) : <<q, x>> \in
                {p \in shorter \X S : Len(p[1]) = n - 1 /\ p[2] \notin SeqToSet(p[1])}}

\* result lists: rankings of distinct items, each entry naming the item retrieved
ResultLists ==
    {[j \in DOMAIN q |-> [result_fname |-> PyStr(StrOfNat(q[j]))]] :
        q \in DistinctSeqs(Fnames, NumItems)}

RECURSIVE EntriesFrom(_, _)
EntriesFrom(f, i) ==
    IF i > NumItems THEN <<>>
    ELSE (IF f[i] = None THEN <<>>
          ELSE <<[key |-> StrOfNat(i), result |-> f[i][1]]>>)
         \o EntriesFrom(f, i + 1)

\* results stores: one entry per query, keyed by the string form of the identifier
ResultsDicts ==
    {EntriesFrom(f, 1) : f \in [Fnames -> {None} \cup {Some(r) : r \in ResultLists}]}

QueryFnames == {PyStr(StrOfNat(i)) : i \in Fnames}

\* the labels of the label strings
Labels == UNION {SeqToSet(Split(s)) : s \in LabelStrings}

NoCall == [fn |-> "none"]

\* replacement_dict = {}
EmptyDict == [name \in {} |-> name]

\* the tag cleaning script is not run
CleanerNotRun ==
    /\ tags_subset = <<>>
    /\ pair_index = 0
    /\ groups = <<>>
    /\ group_index = 0
    /\ replacement_dict = EmptyDict
    /\ pc = "not run"

---------------------------------------------------------------------------
(* Relevance evaluator and R1 over a label table *)

Init ==
    /\ df \in DataFrames
    /\ call = NoCall
    /\ ret = Ok(None)
    /\ CleanerNotRun

Call_evaluate_relevance ==
    \E query_fname \in QueryFnames, result \in ResultLists,
       query_label \in {None} \cup {Some(l) : l \in Labels} :
        /\ call = NoCall
        /\ call' = [fn |-> "evaluate_relevance", query_fname |-> query_fname,
                    result |-> result, query_label |-> query_label]
        /\ ret' = evaluate_relevance(query_fname, result, df, query_label)
        /\ UNCHANGED <<df, cleaner_vars>>

Call_R1 ==
    \E query_fname \in QueryFnames, result \in ResultLists :
        /\ call = NoCall
        /\ call' = [fn |-> "R1", query_fname |-> query_fname, result |-> result]
        /\ ret' = R1(query_fname, result, df)
        /\ UNCHANGED <<df, cleaner_vars>>

Call_calculate_MR1 ==
    \E results_dict \in ResultsDicts :
        /\ call = NoCall
        /\ call' = [fn |-> "calculate_MR1", results_dict |-> results_dict]
        /\ ret' = calculate_MR1(results_dict, df)
        /\ UNCHANGED <<df, cleaner_vars>>

\* the caller takes the result; the next call can be made
Return ==
    /\ call # NoCall
    /\ call' = NoCall
    /\ ret' = Ok(None)
    /\ UNCHANGED <<df, cleaner_vars>>

Next ==
    \/ Call_evaluate_relevance
    \/ Call_R1
    \/ Return

Spec == Init /\ [][Next]_vars

---------------------------------------------------------------------------
(* MR1 over a label table that has a row for every identifier *)

InitMR1 ==
    /\ df \in FullDataFrames
    /\ call = NoCall
    /\ ret = Ok(None)
    /\ CleanerNotRun

NextMR1 ==
    \/ Call_calculate_MR1
    \/ Return

SpecMR1 == InitMR1 /\ [][NextMR1]_vars

---------------------------------------------------------------------------
(* The ranking metrics on relevance sequences *)

\* every sequence over S of length at most n
RECURSIVE SeqsUpTo(_, _)
SeqsUpTo(S, n) ==
    IF n = 0 THEN {<<>>}
    ELSE LET shorter == SeqsUpTo(S, n - 1)
         IN shorter \cup {Append(q, x) : <<q, x>> \in
                             {p \in shorter \X S : Len(p[1]) = n - 1}}

\* relevance values: 0, 1, and 2 for a value that is neither
RelevanceValues == {0, 1, 2}

Relevances == SeqsUpTo(RelevanceValues, MaxN)

MapValues == {Frac(0, 1), Frac(1, 3), Frac(1, 2), Frac(1, 1)}

Occurrences == {1, 3, 100}

LabelMapEntries == [label : Labels, map : MapValues, occurance : Occurrences]

InitMetrics ==
    /\ df = <<>>
    /\ call = NoCall
    /\ ret = Ok(None)
    /\ CleanerNotRun

Call_precision_at_k ==
    \E relevance \in Relevances, k \in -1..MaxN :
        /\ call = NoCall
        /\ call' = [fn |-> "precision_at_k", relevance |-> relevance, k |-> k]
        /\ ret' = precision_at_k(relevance, k)
        /\ UNCHANGED <<df, cleaner_vars>>

Call_average_precision ==
    \E relevance \in Relevances, n_relevant \in 0..MaxN + 1 :
        /\ call = NoCall
        /\ call' = [fn |-> "average_precision", relevance |-> relevance,
                    n_relevant |-> n_relevant]
        /\ ret' = call_average_precision(<<relevance, n_relevant>>)
        /\ UNCHANGED <<df, cleaner_vars>>

Call_average_precision_at_n ==
    \E relevance \in Relevances, n \in 0..MaxN + 1,
       n_relevant \in {None} \cup {Some(m) : m \in 0..MaxN + 1} :
        /\ call = NoCall
        /\ call' = [fn |-> "average_precision_at_n", relevance |-> relevance,
                    n |-> n, n_relevant |-> n_relevant]
        /\ ret' = average_precision_at_n(relevance, n, n_relevant)
        /\ UNCHANGED <<df, cleaner_vars>>

Call_test_average_precision_at_n ==
    /\ call = NoCall
    /\ call' = [fn |-> "test_average_precision_at_n"]
    /\ ret' = test_average_precision_at_n
    /\ UNCHANGED <<df, cleaner_vars>>

Call_calculate_macro_map ==
    \E label_maps \in SeqsUpTo(LabelMapEntries, MaxLabels) :
        /\ call = NoCall
        /\ call' = [fn |-> "calculate_macro_map", label_maps |-> label_maps]
        /\ ret' = calculate_macro_map(label_maps)
        /\ UNCHANGED <<df, cleaner_vars>>

NextMetrics ==
    \/ Call_precision_at_k
    \/ Call_average_precision
    \/ Call_average_precision_at_n
    \/ Call_test_average_precision_at_n
    \/ Call_calculate_macro_map
    \/ Return

SpecMetrics == InitMetrics /\ [][NextMetrics]_vars

---------------------------------------------------------------------------
(* The label-containment lookup on labels strings *)

Chars == {"a", ".", ","}

LabelChars == Chars \ {","}

InitLabels ==
    /\ df \in {<<[fname |-> 1, labels |-> s]>> : s \in SeqsUpTo(Chars, MaxStrLen)}
    /\ call = NoCall
    /\ ret = Ok(None)
    /\ CleanerNotRun

Call_find_indices_containing_label ==
    \E label \in SeqsUpTo(LabelChars, MaxLabelLen) :
        /\ call = NoCall
        /\ call' = [fn |-> "find_indices_containing_label", label |-> label]
        /\ ret' = Ok(find_indices_containing_label(label, df))
        /\ UNCHANGED <<df, cleaner_vars>>

NextLabels ==
    \/ Call_find_indices_containing_label
    \/ Return

SpecLabels == InitLabels /\ [][NextLabels]_vars

---------------------------------------------------------------------------
(* The aggregate reports over a label table and a results store *)

\* the orders a set of labels can be iterated in
Orders(S) == {q \in DistinctSeqs(S, Cardinality(S)) : Len(q) = Cardinality(S)}

Call_calculate_micro_map_at_k ==
    \E results_dict \in ResultsDicts, k \in 0..NumItems :
        /\ call = NoCall
        /\ call' = [fn |-> "calculate_micro_map_at_k",
                    results_dict |-> results_dict, k |-> k]
        /\ ret' = calculate_micro_map_at_k(results_dict, df, k)
        /\ UNCHANGED <<df, cleaner_vars>>

Call_calculate_map_at_k_for_labels ==
    \E results_dict \in ResultsDicts, k \in 0..NumItems,
       order \in Orders(labels_of(df)) :
        /\ call = NoCall
        /\ call' = [fn |-> "calculate_map_at_k_for_labels",
                    results_dict |-> results_dict, k |-> k, order |-> order]
        /\ ret' = calculate_map_at_k_for_labels(results_dict, df, k, order)
        /\ UNCHANGED <<df, cleaner_vars>>

NextAgg ==
    \/ Call_calculate_micro_map_at_k
    \/ Call_calculate_map_at_k_for_labels
    \/ Return

InitAgg ==
    /\ df \in AggDataFrames
    /\ call = NoCall
    /\ ret = Ok(None)
    /\ CleanerNotRun

SpecAgg == InitAgg /\ [][NextAgg]_vars

---------------------------------------------------------------------------
(* What the claims speak of, stated on the label table itself *)

\* the comma-delimited tokens of s: its maximal comma-free stretches
Tokens(s) ==
    {SubSeq(s, i, j) : <<i, j>> \in
        {p \in (1..Len(s) + 1) \X (0..Len(s)) :
            /\ p[2] >= p[1] - 1
            /\ \A m \in p[1]..p[2] : s[m] # ","
            /\ (p[1] = 1 \/ s[p[1] - 1] = ",")
            /\ (p[2] = Len(s) \/ s[p[2] + 1] = ",")}}

\* the identifier has a row in the label table
Resolves(fname) == \E r \in DOMAIN df : df[r].fname = int(fname)

\* the label set of an identifier that has a row
LabelSet(fname) ==
    Tokens(df[CHOOSE r \in DOMAIN df : df[r].fname = int(fname)].labels)

AllResolve(query_fname, result) ==
    /\ Resolves(query_fname)
    /\ \A i \in DOMAIN result : Resolves(result[i].result_fname)

SharesLabel(query_fname, ref_fname) ==
    LabelSet(query_fname) \cap LabelSet(ref_fname) # {}

\* the positions (one-based) of the results that share a label with the query
Matches(query_fname, result) ==
    {i \in DOMAIN result : SharesLabel(query_fname, result[i].result_fname)}

\* the zero-based rank of the first result that shares a label with the query
FirstRank(query_fname, result) ==
    (CHOOSE i \in Matches(query_fname, result) :
        \A j \in Matches(query_fname, result) : i <= j) - 1

EntryResolves(e) == AllResolve(PyStr(e.key), e.result)

EntryMatches(e) == Matches(PyStr(e.key), e.result) # {}

RECURSIVE RankSum(_)
\* the sum of the first relevant ranks of the queries that have a relevant result
RankSum(entries) ==
    IF entries = <<>> THEN 0
    ELSE (IF EntryMatches(entries[1])
          THEN FirstRank(PyStr(entries[1].key), entries[1].result) ELSE 0)
         + RankSum(Tail(entries))

\* entries without its j-th entry
Without(entries, j) ==
    SubSeq(entries, 1, j - 1) \o SubSeq(entries, j + 1, Len(entries))

---------------------------------------------------------------------------
(* Claims on the relevance evaluator and on MR1 *)

\* C2: calculate_MR1 returns the mean of the zero-based first relevant ranks
\* over exactly the queries that have a relevant result; a query whose first
\* relevant result is at rank 0 stays in the sum and in the denominator.
C2_MR1IsMeanOverMatchedQueries ==
    (/\ call.fn = "calculate_MR1"
     /\ \A j \in DOMAIN call.results_dict : EntryResolves(call.results_dict[j])
     /\ \E j \in DOMAIN call.results_dict : EntryMatches(call.results_dict[j]))
    => ret = Ok(Frac(RankSum(call.results_dict),
                     Cardinality({j \in DOMAIN call.results_dict :
                                     EntryMatches(call.results_dict[j])})))

\* C3: when calculate_MR1 returns a value on a results store, it returns the
\* same value on that store with one more query none of whose results shares
\* a label with it.
C3_NoMatchQueryLeavesMR1 ==
    call.fn = "calculate_MR1"
    => \A j \in DOMAIN call.results_dict :
           LET e == call.results_dict[j]
               before == calculate_MR1(Without(call.results_dict, j), df)
           IN (EntryResolves(e) /\ ~EntryMatches(e) /\ before.kind = "value")
              => ret = before

C3_Witness ==
    /\ call.fn = "calculate_MR1"
    /\ ret.kind = "value"
    /\ \E j \in DOMAIN call.results_dict :
           LET e == call.results_dict[j]
           IN /\ EntryResolves(e)
              /\ ~EntryMatches(e)
              /\ Len(e.result) > 0
              /\ calculate_MR1(Without(call.results_dict, j), df).kind = "value"

\* C6: without a query label, evaluate_relevance returns one 0/1 value per
\* result, in the order of the results: 1 iff the label sets of the query and
\* of the result intersect (they need not be equal).
C6_DefaultRelevance ==
    (/\ call.fn = "evaluate_relevance"
     /\ call.query_label = None
     /\ AllResolve(call.query_fname, call.result))
    => /\ ret.kind = "value"
       /\ Len(ret.val) = Len(call.result)
       /\ \A i \in DOMAIN call.result :
              ret.val[i] = IF SharesLabel(call.query_fname, call.result[i].result_fname)
                           THEN 1 ELSE 0

C6_Witness ==
    /\ call.fn = "evaluate_relevance"
    /\ call.query_label = None
    /\ AllResolve(call.query_fname, call.result)
    /\ Len(call.result) >= 2
    /\ ret.kind = "value"
    /\ \E i \in DOMAIN call.result :
           /\ ret.val[i] = 1
           /\ LabelSet(call.query_fname) # LabelSet(call.result[i].result_fname)

\* C7: with a query label L, the i-th value of evaluate_relevance is 1 iff L
\* is in the label set of the i-th result, and the sequence is the same for
\* every query that has a row in the label table.
C7_LabelRestrictedRelevance ==
    (/\ call.fn = "evaluate_relevance"
     /\ call.query_label # None
     /\ AllResolve(call.query_fname, call.result))
    => /\ ret.kind = "value"
       /\ Len(ret.val) = Len(call.result)
       /\ \A i \in DOMAIN call.result :
              ret.val[i] = IF call.query_label[1] \in LabelSet(call.result[i].result_fname)
                           THEN 1 ELSE 0
       /\ \A other \in QueryFnames :
              Resolves(other)
              => evaluate_relevance(other, call.result, df, call.query_label) = ret

C7_Witness ==
    /\ call.fn = "evaluate_relevance"
    /\ call.query_label # None
    /\ AllResolve(call.query_fname, call.result)
    /\ call.query_label[1] \notin LabelSet(call.query_fname)
    /\ ret.kind = "value"
    /\ \E i \in DOMAIN call.result : ret.val[i] = 1
    /\ \E other \in QueryFnames :
           Resolves(other) /\ LabelSet(other) # LabelSet(call.query_fname)

---------------------------------------------------------------------------
(* What the claims on the mAP metrics speak of *)

\* the positions (one-based) of the 1s of a relevance sequence
Ones(r) == {i \in DOMAIN r : r[i] = 1}

RECURSIVE PrecisionSum(_, _)
\* the sum, over the positions up to i that hold a 1, of the share of 1s
\* among the positions up to that one
PrecisionSum(r, i) ==
    IF i = 0 THEN Zero
    ELSE FracAdd(PrecisionSum(r, i - 1),
                 IF r[i] = 1
                 THEN Frac(Cardinality({j \in Ones(r) : j <= i}), i)
                 ELSE Zero)

\* the average precision of r with n_relevant the number of its 1s
AP(r) ==
    IF Ones(r) = {} THEN Zero
    ELSE LET total == PrecisionSum(r, Len(r))
         IN Frac(total.num, total.den * Cardinality(Ones(r)))

FirstK(result, k) == [i \in 1..Min(k, Len(result)) |-> result[i]]

\* the relevance of the results of a query under the default rule
DefaultRelevance(query_fname, result) ==
    [i \in DOMAIN result |->
        IF SharesLabel(query_fname, result[i].result_fname) THEN 1 ELSE 0]

\* the relevance of results under the rule "the result has label L"
LabelRelevance(L, result) ==
    [i \in DOMAIN result |->
        IF L \in LabelSet(result[i].result_fname) THEN 1 ELSE 0]

RECURSIVE MicroAPSum(_, _)
MicroAPSum(entries, k) ==
    IF entries = <<>> THEN Zero
    ELSE FracAdd(AP(DefaultRelevance(PyStr(entries[1].key),
                                     FirstK(entries[1].result, k))),
                 MicroAPSum(Tail(entries), k))

\* the rows of the label table whose label set contains L
RowsWith(L) == {r \in DOMAIN df : L \in Tokens(df[r].labels)}

\* the result list the results store holds for the item of a row
ResultOf(results_dict, r) ==
    results_dict[CHOOSE j \in DOMAIN results_dict :
                     results_dict[j].key = StrOfNat(df[r].fname)].result

RECURSIVE LabelAPSum(_, _, _, _)
\* the sum over the rows up to r that have label L of the average precision
\* of the row's item as a query
LabelAPSum(L, results_dict, k, r) ==
    IF r = 0 THEN Zero
    ELSE FracAdd(LabelAPSum(L, results_dict, k, r - 1),
                 IF r \in RowsWith(L)
                 THEN AP(LabelRelevance(L, FirstK(ResultOf(results_dict, r), k)))
                 ELSE Zero)

\* every item of the table is a query of the store, and every identifier resolves
StoreCoversTable(results_dict) ==
    /\ \A r \in DOMAIN df :
           \E j \in DOMAIN results_dict : results_dict[j].key = StrOfNat(df[r].fname)
    /\ \A j \in DOMAIN results_dict : EntryResolves(results_dict[j])

---------------------------------------------------------------------------
(* Claims on the aggregate reports *)

\* C1: on a non-empty results store whose identifiers all resolve, and k >= 1,
\* calculate_micro_map_at_k returns the mean over all queries, each with the
\* same weight, of the average precision of the first k results of the query
\* under the default relevance rule, n_relevant being the number of 1s found.
C1_MicroMapIsMeanAP ==
    (/\ call.fn = "calculate_micro_map_at_k"
     /\ call.results_dict # <<>>
     /\ call.k >= 1
     /\ \A j \in DOMAIN call.results_dict : EntryResolves(call.results_dict[j]))
    => LET total == MicroAPSum(call.results_dict, call.k)
       IN ret = Ok(Frac(total.num, total.den * Len(call.results_dict)))

\* C5: for every label L of the label table, the map@k recorded for L by
\* calculate_map_at_k_for_labels is the mean, over the items whose label set
\* contains L taken as queries, of the average precision of the first k
\* results under the rule "the result has label L".
C5_LabelMapIsMeanAP ==
    (/\ call.fn = "calculate_map_at_k_for_labels"
     /\ df # <<>>
     /\ StoreCoversTable(call.results_dict))
    => /\ ret.kind = "value"
       /\ \A L \in UNION {Tokens(df[r].labels) : r \in DOMAIN df} :
              LET total == LabelAPSum(L, call.results_dict, call.k, Len(df))
              IN \E j \in DOMAIN ret.val.label_maps :
                     /\ ret.val.label_maps[j].label = L
                     /\ ret.val.label_maps[j].map =
                            Frac(total.num, total.den * Cardinality(RowsWith(L)))

---------------------------------------------------------------------------
(* Claims on the ranking metrics *)

\* C4: calculate_macro_map returns the unweighted mean of the map@k of the
\* entries of a non-empty list; the occurrence counts of the entries do not
\* enter it, so two entries of one map@k give that value whatever their counts.
C4_MacroMapUnweighted ==
    (call.fn = "calculate_macro_map" /\ call.label_maps # <<>>)
    => LET lm == call.label_maps
       IN /\ ret.kind = "value"
          /\ FracMulInt(ret.val, Len(lm)) = SumFracs([j \in DOMAIN lm |-> lm[j].map])
          /\ \A occ \in [DOMAIN lm -> Occurrences] :
                 calculate_macro_map(
                     [j \in DOMAIN lm |-> [lm[j] EXCEPT !.occurance = occ[j]]]) = ret
          /\ (Len(lm) = 2 /\ lm[1].map = lm[2].map) => ret.val = lm[1].map

C4_Witness ==
    /\ call.fn = "calculate_macro_map"
    /\ Len(call.label_maps) = 2
    /\ call.label_maps[1].map = call.label_maps[2].map
    /\ call.label_maps[1].map \notin {Frac(0, 1), Frac(1, 1)}
    /\ call.label_maps[1].occurance = 1
    /\ call.label_maps[2].occurance = 100
    /\ ret = Ok(call.label_maps[1].map)

\* the normalisation of average_precision_at_n: min(n, n_relevant) when
\* n_relevant is supplied, n when it is not
Normalization(n, n_relevant) ==
    IF n_relevant = None THEN n ELSE Min(n, n_relevant[1])

\* the value the claim gives average_precision_at_n on r with a 1 in it
APAtN(r, n, n_relevant) ==
    LET total == PrecisionSum(r, Len(r))
    IN IF Ones(r) = {} THEN Zero
       ELSE Frac(total.num, total.den * Normalization(n, n_relevant))

\* C9: for a 0/1 sequence r of length n > 0 with a 1 in it,
\* average_precision_at_n(r, n, n_relevant) is the sum of the precisions at
\* the positions of the 1s divided by min(n, n_relevant) when n_relevant is
\* supplied and by n when it is not (a normalisation of 0 has no quotient);
\* the six cases of the self-test are within 0.001 of that value, so the
\* self-test passes.
C9_APAtNNormalisation ==
    /\ (/\ call.fn = "average_precision_at_n"
        /\ IsBinary(call.relevance)
        /\ Len(call.relevance) = call.n
        /\ call.n > 0
        /\ Ones(call.relevance) # {}
        /\ Normalization(call.n, call.n_relevant) # 0)
       => ret = Ok(APAtN(call.relevance, call.n, call.n_relevant))
    /\ call.fn = "test_average_precision_at_n"
       => /\ ret = Ok(None)
          /\ \A i \in DOMAIN tests :
                 FracLeq(FracAbs(FracSub(
                             APAtN(tests[i][1], tests[i][2], Some(tests[i][3])),
                             tests[i][4])),
                         Frac(1, 1000))

C9_Witness ==
    /\ call.fn = "average_precision_at_n"
    /\ IsBinary(call.relevance)
    /\ Len(call.relevance) = call.n
    /\ Ones(call.relevance) # {}
    /\ call.n_relevant # None
    /\ call.n_relevant[1] > 0
    /\ call.n_relevant[1] < call.n
    /\ call.relevance[1] = 0
    /\ ret.kind = "value"

\* C10 as claimed: average_precision(relevance, 0) returns 0 whatever
\* relevance holds.
C10_ZeroWhateverRelevance ==
    (call.fn = "average_precision" /\ call.n_relevant = 0) => ret = Ok(Zero)

\* C10: average_precision(relevance, 0) returns 0 when no entry of relevance
\* counts (sum(relevance) = 0), the empty sequence included, and raises
\* AssertionError when relevance holds a 1.
C10_ZeroWhenNoneRelevant ==
    (call.fn = "average_precision" /\ call.n_relevant = 0)
    => IF \A i \in DOMAIN call.relevance : call.relevance[i] = 0
       THEN ret = Ok(Zero)
       ELSE ret = Raise("AssertionError")

C10_Witness ==
    /\ call.fn = "average_precision"
    /\ call.n_relevant = 0
    /\ Len(call.relevance) >= 2
    /\ ret = Ok(Zero)

---------------------------------------------------------------------------
(* Claims on the label-containment lookup *)

\* C8: find_indices_containing_label selects a row iff the label is one of
\* the comma-delimited tokens of the row's labels string; a label that is
\* only a proper part of a token does not select the row.
C8_WholeTokenMatch ==
    call.fn = "find_indices_containing_label"
    => /\ ret.kind = "value"
       /\ Len(ret.val) = Len(df)
       /\ \A r \in DOMAIN df : ret.val[r] = (call.label \in Tokens(df[r].labels))

C8_Witness ==
    /\ call.fn = "find_indices_containing_label"
    /\ call.label = <<"a">>
    /\ df[1].labels = <<".", ",", "a", "a">>
    /\ ret.val = <<FALSE>>

-----------------------------------------------------------------------------
(* average_precision: the assertion on n_relevant, and a relevant document  *)
(* moved up the ranking                                                     *)

\* C11: average_precision(relevance, n_relevant) ends in an AssertionError,
\* and returns no value, whenever the number of 1s in relevance differs from
\* n_relevant; it returns a value only when sum(relevance) = n_relevant.
C11_AssertsRelevantCount ==
    call.fn = "average_precision" =>
        /\ Cardinality(Ones(call.relevance)) # call.n_relevant
               => ret = Raise("AssertionError")
        /\ ret.kind = "value" => SumSeq(call.relevance) = call.n_relevant

\* a 0/1 sequence with a 1 in it called with a different n_relevant
C11_Witness ==
    /\ call.fn = "average_precision"
    /\ IsBinary(call.relevance)
    /\ Cardinality(Ones(call.relevance)) = 2
    /\ call.n_relevant = 1
    /\ ret = Raise("AssertionError")

\* r with the entries at positions i and j exchanged
Swap(r, i, j) ==
    [p \in DOMAIN r |-> IF p = i THEN r[j] ELSE IF p = j THEN r[i] ELSE r[p]]

\* C12: for a 0/1 sequence r and positions i < j with r[i] = 0 and r[j] = 1,
\* the sequence r' with the two entries exchanged has
\* average_precision(r', sum(r')) >= average_precision(r, sum(r)).
C12_APMonotoneUnderSwap ==
    (/\ call.fn = "average_precision"
     /\ IsBinary(call.relevance)
     /\ call.n_relevant = SumSeq(call.relevance))
    => /\ ret.kind = "value"
       /\ \A i, j \in DOMAIN call.relevance :
            (i < j /\ call.relevance[i] = 0 /\ call.relevance[j] = 1) =>
                LET swapped == Swap(call.relevance, i, j)
                    moved == average_precision(swapped, SumSeq(swapped))
                IN /\ moved.kind = "value"
                   /\ FracLeq(ret.val, moved.val)

\* a 0 at the head and a 1 at the tail with a 1 between them, the average
\* precision below 1
C12_Witness ==
    /\ call.fn = "average_precision"
    /\ call.relevance = <<0, 1, 1>>
    /\ call.n_relevant = 2
    /\ ret = Ok(Frac(7, 12))

\* C13: for zero-based k, precision_at_k(relevance, k) is the number of 1s
\* among relevance[0..k] inclusive divided by k + 1, and for a 0/1 sequence r
\* precision_at_k(r, len(r) - 1) = sum(r) / len(r).
C13_PrecisionAtK ==
    (/\ call.fn = "precision_at_k"
     /\ IsBinary(call.relevance)
     /\ call.k >= 0)
    => /\ ret = Ok(Frac(Cardinality({i \in Ones(call.relevance) : i <= call.k + 1}),
                        call.k + 1))
       /\ call.k = Len(call.relevance) - 1 =>
              ret = Ok(Frac(Cardinality(Ones(call.relevance)),
                            Len(call.relevance)))

\* a cut-off inside the list that keeps one 1 in and leaves one 1 out
C13_Witness ==
    /\ call.fn = "precision_at_k"
    /\ call.relevance = <<0, 1, 1>>
    /\ call.k = 1
    /\ ret = Ok(Frac(1, 2))

-----------------------------------------------------------------------------
(* average_precision_at_n on a list without a relevant document             *)

\* C14 as stated: average_precision_at_n(r, n, n_relevant) returns 0 for any
\* n and any n_relevant whenever the 0/1 sequence r holds no 1.
C14_ZeroForAnyN ==
    (/\ call.fn = "average_precision_at_n"
     /\ IsBinary(call.relevance)
     /\ Ones(call.relevance) = {})
    => ret = Ok(Zero)

\* C14: when the 0/1 sequence r holds no 1, average_precision_at_n(r, n,
\* n_relevant) returns 0 for any n_relevant, 0 and None included, provided
\* len(r) = n > 0; with n <= 0 or len(r) # n the call raises AssertionError.
C14_ZeroWhenLengthIsN ==
    (/\ call.fn = "average_precision_at_n"
     /\ IsBinary(call.relevance)
     /\ Ones(call.relevance) = {})
    => IF call.n > 0 /\ Len(call.relevance) = call.n
       THEN ret = Ok(Zero)
       ELSE ret = Raise("AssertionError")

\* two irrelevant results, n = 2 and no relevant document in the collection
C14_Witness ==
    /\ call.fn = "average_precision_at_n"
    /\ call.relevance = <<0, 0>>
    /\ call.n = 2
    /\ call.n_relevant = Some(0)
    /\ ret = Ok(Zero)

-----------------------------------------------------------------------------
(* R1 and the identifiers without a row                                     *)

\* C15: R1(query, result_list, df) returns the zero-based index of the first
\* result whose label set shares a label with the query's, and None, which is
\* not the rank 0, when no result shares a label; a first match at index 0
\* returns 0.
C15_R1FirstMatchOrNone ==
    (/\ call.fn = "R1"
     /\ AllResolve(call.query_fname, call.result))
    => /\ IF Matches(call.query_fname, call.result) # {}
          THEN ret = Ok(Some(FirstRank(call.query_fname, call.result)))
          ELSE ret = Ok(None)
       /\ 1 \in Matches(call.query_fname, call.result) => ret = Ok(Some(0))
       /\ ret # Ok(None) <=> Matches(call.query_fname, call.result) # {}
       /\ Ok(None) # Ok(Some(0))

\* a list of two results whose first result shares a label with the query
C15_Witness ==
    /\ call.fn = "R1"
    /\ Len(call.result) = 2
    /\ AllResolve(call.query_fname, call.result)
    /\ 1 \in Matches(call.query_fname, call.result)
    /\ ret = Ok(Some(0))

\* the exception classes that are LookupError or derive from it
LookupErrorKinds == {"LookupError", "IndexError", "KeyError"}

\* C16 as stated: whenever the query identifier or any result identifier
\* passed to evaluate_relevance or R1 has no row in the label table, the call
\* fails with a LookupError and returns nothing.
C16_MissingIdAlwaysFails ==
    (/\ call.fn \in {"evaluate_relevance", "R1"}
     /\ ~AllResolve(call.query_fname, call.result))
    => ret.kind \in LookupErrorKinds

\* the results up to position m have rows, and none of them shares a label
\* with the query
NoMatchUpTo(query_fname, result, m) ==
    \A j \in 1..m :
        /\ Resolves(result[j].result_fname)
        /\ ~SharesLabel(query_fname, result[j].result_fname)

\* C16: evaluate_relevance fails with IndexError, a LookupError, whenever the
\* query identifier or any result identifier has no row in the label table,
\* and returns no relevance sequence; R1 fails so when the query identifier
\* has no row or a result identifier without a row comes before any result
\* that shares a label with the query, and returns the rank of the first
\* match when the missing identifier comes after it; neither takes a missing
\* identifier for an item with an empty label set.
C16_MissingIdFailsWhenLookedUp ==
    /\ (/\ call.fn = "evaluate_relevance"
        /\ ~AllResolve(call.query_fname, call.result))
       => ret = Raise("IndexError")
    /\ (/\ call.fn = "R1"
        /\ ~AllResolve(call.query_fname, call.result))
       => IF \/ ~Resolves(call.query_fname)
             \/ \E m \in DOMAIN call.result :
                    /\ ~Resolves(call.result[m].result_fname)
                    /\ NoMatchUpTo(call.query_fname, call.result, m - 1)
          THEN ret = Raise("IndexError")
          ELSE \E m \in DOMAIN call.result :
                    /\ NoMatchUpTo(call.query_fname, call.result, m - 1)
                    /\ Resolves(call.result[m].result_fname)
                    /\ SharesLabel(call.query_fname, call.result[m].result_fname)
                    /\ ret = Ok(Some(m - 1))
    /\ "IndexError" \in LookupErrorKinds

\* the query and the first result have rows, the second result has none
C16_Witness ==
    /\ call.fn = "evaluate_relevance"
    /\ Len(call.result) = 2
    /\ Resolves(call.query_fname)
    /\ Resolves(call.result[1].result_fname)
    /\ ~Resolves(call.result[2].result_fname)
    /\ ret = Raise("IndexError")

-----------------------------------------------------------------------------
(* The list of label entries of calculate_map_at_k_for_labels               *)

\* the distinct labels of the label table
TableLabels == UNION {Tokens(df[r].labels) : r \in DOMAIN df}

\* C17: on a non-empty label table whose items all have a result list, the
\* list calculate_map_at_k_for_labels returns has exactly one entry (label,
\* map@k, occurrence) per distinct label of the table, no label twice and none
\* missing, and the occurrence count of an entry is the number of items whose
\* label set contains the label, so at least 1.
C17_OneEntryPerLabel ==
    (/\ call.fn = "calculate_map_at_k_for_labels"
     /\ df # <<>>
     /\ StoreCoversTable(call.results_dict))
    => /\ ret.kind = "value"
       /\ LET lm == ret.val.label_maps
          IN /\ {lm[j].label : j \in DOMAIN lm} = TableLabels
             /\ Len(lm) = Cardinality(TableLabels)
             /\ \A j \in DOMAIN lm :
                    /\ lm[j].occurance = Cardinality(RowsWith(lm[j].label))
                    /\ lm[j].occurance >= 1

\* C18: on a non-empty label table whose items all have a result list, the
\* list calculate_map_at_k_for_labels returns is in descending order of
\* map@k: of two consecutive entries the earlier has a map@k greater than or
\* equal to the later one's.
C18_SortedByMapDescending ==
    (/\ call.fn = "calculate_map_at_k_for_labels"
     /\ df # <<>>
     /\ StoreCoversTable(call.results_dict))
    => /\ ret.kind = "value"
       /\ LET lm == ret.val.label_maps
          IN \A j \in 1..(Len(lm) - 1) : FracLeq(lm[j + 1].map, lm[j].map)

-----------------------------------------------------------------------------
(* The assertions of precision_at_k and average_precision_at_n              *)

\* the exception classes that are ValueError or derive from it
ValueErrorKinds == {"ValueError", "UnicodeError"}

\* C19 as stated: precision_at_k(relevance, k), k zero-based, fails with a
\* ValueError whenever relevance holds a value other than 0 or 1, and returns
\* a value otherwise.
C19_NonBinaryIsValueError ==
    (call.fn = "precision_at_k" /\ call.k >= 0)
    => IF IsBinary(call.relevance)
       THEN ret.kind = "value"
       ELSE ret.kind \in ValueErrorKinds

\* C19: precision_at_k(relevance, k), k zero-based, fails with an
\* AssertionError, which is not a ValueError, whenever relevance holds a value
\* other than 0 or 1, at whatever position, and returns a value otherwise.
C19_NonBinaryIsAssertionError ==
    /\ (call.fn = "precision_at_k" /\ call.k >= 0)
       => IF IsBinary(call.relevance)
          THEN ret.kind = "value"
          ELSE ret = Raise("AssertionError")
    /\ "AssertionError" \notin ValueErrorKinds

\* the value that is not 0 or 1 lies behind the cut-off
C19_Witness ==
    /\ call.fn = "precision_at_k"
    /\ call.relevance = <<1, 2>>
    /\ call.k = 0
    /\ ret = Raise("AssertionError")

\* C20 as stated: average_precision_at_n(relevance, n, n_relevant) fails with
\* a ValueError whenever len(relevance) # n, and computes a value only over
\* exactly n relevance entries.
C20_LengthMismatchIsValueError ==
    call.fn = "average_precision_at_n" =>
        /\ Len(call.relevance) # call.n => ret.kind \in ValueErrorKinds
        /\ ret.kind = "value" => Len(call.relevance) = call.n

\* C20: average_precision_at_n(relevance, n, n_relevant) fails with an
\* AssertionError, which is not a ValueError, whenever len(relevance) # n, and
\* computes a value only over exactly n relevance entries.
C20_LengthMismatchIsAssertionError ==
    /\ call.fn = "average_precision_at_n" =>
        /\ Len(call.relevance) # call.n => ret = Raise("AssertionError")
        /\ ret.kind = "value" => Len(call.relevance) = call.n
    /\ "AssertionError" \notin ValueErrorKinds

\* a list of two results with a relevant one, called with n = 1
C20_Witness ==
    /\ call.fn = "average_precision_at_n"
    /\ call.relevance = <<1, 0>>
    /\ call.n = 1
    /\ call.n_relevant = Some(1)
    /\ ret = Raise("AssertionError")

-----------------------------------------------------------------------------
(* The aggregate reports on an empty results store and under a different     *)
(* processing order                                                          *)

\* C21: calculate_micro_map_at_k called with an empty results_dict fails with
\* a ValueError, "empty result set"; it neither returns a value nor fails with
\* a division by zero.
C21_EmptyStoreIsValueError ==
    (/\ call.fn = "calculate_micro_map_at_k"
     /\ call.results_dict = <<>>)
    => /\ ret.kind \in ValueErrorKinds
       /\ ret.kind # "ZeroDivisionError"
       /\ ret.kind # "value"

\* C22: on a non-empty label table whose items all have a result list,
\* calculate_map_at_k_for_labels returns a list, and the list, the order of
\* its entries included, is the one it returns for every other order in which
\* the for loop can meet the distinct labels.
C22_ListIndependentOfLabelOrder ==
    (/\ call.fn = "calculate_map_at_k_for_labels"
     /\ df # <<>>
     /\ StoreCoversTable(call.results_dict))
    => /\ ret.kind = "value"
       /\ \A order \in Orders(labels_of(df)) :
              calculate_map_at_k_for_labels(call.results_dict, df, call.k, order) = ret

-----------------------------------------------------------------------------
(* The range of the average precisions                                      *)

One == Frac(1, 1)

\* C23: for a 0/1 sequence r with len(r) = n > 0 and a supplied
\* n_relevant >= 0, average_precision_at_n(r, n, n_relevant) returns a value
\* in [0, 1]; it neither divides by zero nor exceeds 1 when n_relevant is
\* smaller than the number of 1s of r.
C23_APAtNInUnitRange ==
    (/\ call.fn = "average_precision_at_n"
     /\ IsBinary(call.relevance)
     /\ Len(call.relevance) = call.n
     /\ call.n > 0
     /\ call.n_relevant # None)
    => /\ ret.kind = "value"
       /\ FracLeq(Zero, ret.val)
       /\ FracLeq(ret.val, One)

\* every 1 of r precedes every 0 of r
OnesFirst(r) == \A i, j \in DOMAIN r : (r[i] = 1 /\ r[j] = 0) => i < j

\* C24: for a 0/1 sequence r, average_precision(r, sum(r)) lies in [0, 1],
\* and for sum(r) > 0 it is 1 exactly when every 1 of r precedes every 0.
C24_APInUnitRange ==
    (/\ call.fn = "average_precision"
     /\ IsBinary(call.relevance)
     /\ call.n_relevant = SumSeq(call.relevance))
    => /\ ret.kind = "value"
       /\ FracLeq(Zero, ret.val)
       /\ FracLeq(ret.val, One)
       /\ call.n_relevant > 0 => (ret.val = One <=> OnesFirst(call.relevance))

\* the two relevant results ahead of an irrelevant one
C24_Witness ==
    /\ call.fn = "average_precision"
    /\ call.relevance = <<1, 1, 0>>
    /\ call.n_relevant = 2
    /\ ret = Ok(One)

-----------------------------------------------------------------------------
(* R1 against the relevance sequence of evaluate_relevance                  *)

\* the zero-based index of the first 1 of a relevance sequence, None without
\* a 1
FirstOne(relevance) ==
    IF Ones(relevance) = {} THEN None
    ELSE Some((CHOOSE i \in Ones(relevance) : \A j \in Ones(relevance) : i <= j) - 1)

\* C25: for a query and a result list whose identifiers all have rows,
\* R1(query, result, df) is the index of the first 1 of
\* evaluate_relevance(query, result, df) in default mode, and is None exactly
\* when that relevance sequence holds no 1.
C25_R1AgreesWithRelevance ==
    /\ (call.fn = "R1" /\ AllResolve(call.query_fname, call.result))
       => LET relevance == evaluate_relevance(call.query_fname, call.result, df, None)
          IN /\ relevance.kind = "value"
             /\ ret = Ok(FirstOne(relevance.val))
             /\ ret = Ok(None) <=> Ones(relevance.val) = {}
    /\ (/\ call.fn = "evaluate_relevance"
        /\ call.query_label = None
        /\ AllResolve(call.query_fname, call.result))
       => /\ ret.kind = "value"
          /\ R1(call.query_fname, call.result, df) = Ok(FirstOne(ret.val))

\* the first result shares no label with the query and the second does
C25_Witness ==
    /\ call.fn = "R1"
    /\ AllResolve(call.query_fname, call.result)
    /\ evaluate_relevance(call.query_fname, call.result, df, None) = Ok(<<0, 1>>)
    /\ ret = Ok(Some(1))

-----------------------------------------------------------------------------
(* FSD50K_cleaner.py: grouping the tags that are one edit apart, and the    *)
(* choice of a spelling for each group                                      *)

\* the largest number of tags in tags_subset
MaxTags == 4

\* the tags tags_subset is drawn from; "aa" is a substring of "aab"
TagUniverse ==
    {<<"a", "a">>, <<"a", "b">>, <<"b", "a">>, <<"b", "b">>, <<"a", "a", "b">>}

\* ord(c) for the characters of the model
ord(c) == IF c = "a" THEN 97 ELSE IF c = "b" THEN 98 ELSE 124

RECURSIVE str_less(_, _)
\* s < t for two strings
str_less(s, t) ==
    IF t = <<>> THEN FALSE
    ELSE IF s = <<>> THEN TRUE
    ELSE IF s[1] = t[1] THEN str_less(Tail(s), Tail(t))
    ELSE ord(s[1]) < ord(t[1])

RECURSIVE sorted(_)
\* sorted(list(set(tags)))
sorted(S) ==
    IF S = {} THEN <<>>
    ELSE LET least == CHOOSE x \in S : \A y \in S \ {x} : str_less(x, y)
         IN <<least>> \o sorted(S \ {least})

RECURSIVE combinations_from(_, _, _)
combinations_from(lst, a, b) ==
    IF a >= Len(lst) THEN <<>>
    ELSE IF b > Len(lst) THEN combinations_from(lst, a + 1, a + 2)
    ELSE <<<<lst[a], lst[b]>>>> \o combinations_from(lst, a, b + 1)

\* itertools.combinations(lst, 2) as a list
combinations(lst) == combinations_from(lst, 1, 2)

RECURSIVE ed_eval(_, _)
\* editdistance.eval(s, t): the Levenshtein distance
ed_eval(s, t) ==
    IF s = <<>> THEN Len(t)
    ELSE IF t = <<>> THEN Len(s)
    ELSE IF s[1] = t[1] THEN ed_eval(Tail(s), Tail(t))
    ELSE 1 + Min(ed_eval(Tail(s), Tail(t)),
                 Min(ed_eval(Tail(s), t), ed_eval(s, Tail(t))))

\* sub in s, for two strings: sub is a substring of s
str_in(sub, s) ==
    \E i \in 0..(Len(s) - Len(sub)) : SubSeq(s, i + 1, i + Len(sub)) = sub

RECURSIVE split_from(_, _, _, _)
split_from(s, sep, i, token) ==
    IF i > Len(s) THEN <<token>>
    ELSE IF s[i] = sep THEN <<token>> \o split_from(s, sep, i + 1, <<>>)
    ELSE split_from(s, sep, i + 1, Append(token, s[i]))

\* s.split(sep) for a separator of one character
split_on(s, sep) == split_from(s, sep, 1, <<>>)

TagSubsets == {sorted(S) : S \in {T \in SUBSET TagUniverse : Cardinality(T) <= MaxTags}}

comb == combinations(tags_subset)

\* some group holds both tags: the pair is skipped
computed(tag0, tag1, groups_) ==
    \E j \in DOMAIN groups_ : str_in(tag0, groups_[j]) /\ str_in(tag1, groups_[j])

\* the groups after the answer "y" for the pair: the search leaves at the
\* first group that holds one of the two tags
merge(tag0, tag1, groups_) ==
    LET hits == {j \in DOMAIN groups_ :
                    str_in(tag0, groups_[j]) \/ str_in(tag1, groups_[j])}
        j == IF hits = {} THEN Len(groups_)
             ELSE CHOOSE h \in hits : \A other \in hits : h <= other
        tag0_in == hits # {} /\ str_in(tag0, groups_[j])
        tag1_in == hits # {} /\ str_in(tag1, groups_[j])
    IN IF ~tag0_in /\ ~tag1_in THEN Append(groups_, tag0 \o <<"|">> \o tag1)
       ELSE IF tag0_in /\ ~tag1_in
            THEN [groups_ EXCEPT ![j] = @ \o <<"|">> \o tag1]
       ELSE IF ~tag0_in /\ tag1_in
            THEN [groups_ EXCEPT ![j] = @ \o <<"|">> \o tag0]
       ELSE groups_

\* replacement_dict[name] = names[j] for every name of the group
with_names(replacement_dict_, names, j) ==
    [name \in DOMAIN replacement_dict_ \cup SeqToSet(names) |->
        IF name \in SeqToSet(names) THEN names[j + 1] ELSE replacement_dict_[name]]

InitCleaner ==
    /\ df = <<>>
    /\ call = NoCall
    /\ ret = Ok(None)
    /\ tags_subset \in TagSubsets
    /\ pair_index = 0
    /\ groups = <<>>
    /\ group_index = 0
    /\ replacement_dict = EmptyDict
    /\ pc = "pairs"

\* a pair that needs no answer: already in one group, or not one edit apart
SkipPair ==
    /\ pc = "pairs"
    /\ pair_index < Len(comb)
    /\ LET tag0 == comb[pair_index + 1][1]
           tag1 == comb[pair_index + 1][2]
       IN computed(tag0, tag1, groups) \/ ed_eval(tag0, tag1) # 1
    /\ pair_index' = pair_index + 1
    /\ UNCHANGED <<df, call, ret, tags_subset, groups, group_index,
                   replacement_dict, pc>>

\* a pair one edit apart: the user answers the prompt "Merge? [y/N]"
AnswerMerge ==
    \E answer \in {"y", "N"} :
        /\ pc = "pairs"
        /\ pair_index < Len(comb)
        /\ LET tag0 == comb[pair_index + 1][1]
               tag1 == comb[pair_index + 1][2]
           IN /\ ~computed(tag0, tag1, groups)
              /\ ed_eval(tag0, tag1) = 1
              /\ groups' = IF answer = "y" THEN merge(tag0, tag1, groups)
                           ELSE groups
        /\ pair_index' = pair_index + 1
        /\ UNCHANGED <<df, call, ret, tags_subset, group_index,
                       replacement_dict, pc>>

\* all pairs seen: the groups are written out and the choice of names begins
ExportGroups ==
    /\ pc = "pairs"
    /\ pair_index = Len(comb)
    /\ pc' = "names"
    /\ UNCHANGED <<df, call, ret, tags_subset, pair_index, groups, group_index,
                   replacement_dict>>

\* the user picks the number of the name to keep for the next group
SelectName ==
    /\ pc = "names"
    /\ group_index < Len(groups)
    /\ LET names == split_on(groups[group_index + 1], "|")
       IN \E j \in 0..(Len(names) - 1) :
              replacement_dict' = with_names(replacement_dict, names, j)
    /\ group_index' = group_index + 1
    /\ UNCHANGED <<df, call, ret, tags_subset, pair_index, groups, pc>>

\* every group has its name: the tags of the clips are replaced and written
UnifyTags ==
    /\ pc = "names"
    /\ group_index = Len(groups)
    /\ pc' = "done"
    /\ UNCHANGED <<df, call, ret, tags_subset, pair_index, groups, group_index,
                   replacement_dict>>

NextCleaner ==
    \/ SkipPair
    \/ AnswerMerge
    \/ ExportGroups
    \/ SelectName
    \/ UnifyTags

SpecCleaner == InitCleaner /\ [][NextCleaner]_vars

\* the tags of a group
GroupNames(j) == SeqToSet(split_on(groups[j], "|"))

\* C26: whatever the tag subset and the answers to the merge prompts, the
\* groups are pairwise disjoint, no tag is in two groups, and once every group
\* has its name the replacement mapping sends every tag of a group to one
\* name, a tag of that group.
C26_GroupsPairwiseDisjoint ==
    /\ \A a, b \in DOMAIN groups :
           a # b => GroupNames(a) \cap GroupNames(b) = {}
    /\ pc = "done" =>
           \A j \in DOMAIN groups :
               \A name, other \in GroupNames(j) :
                   /\ replacement_dict[name] = replacement_dict[other]
                   /\ replacement_dict[name] \in GroupNames(j)

===========================================================================
